---- MODULE Spec2Model ----
(***************************************************************************)
(* Model of the media corruption scanners: the walk over the configured    *)
(* roots of each section, the worker pool that maps every discovered file  *)
(* through a validator driving ffprobe/ffmpeg processes, the collection    *)
(* loop over as_completed, and the CSV report of the section.              *)
(*   video    : Video/Corrupt_Video_Scanner.py                             *)
(*   video_sw : Video/Corrupt_Video_Scanner_Playback_Software.py           *)
(*   audio    : Audio/Corrupt_Audio_Scanner.py                             *)
(***************************************************************************)
EXTENDS Integers, Sequences, FiniteSets, TLC

\* ---------------------------------------------------------------- bounds
MaxFiles == 2
MaxWorkers == 2
MaxBad == 1
MaxRoots == 2
MaxSections == 2

VARIABLES
  scanner,          \* which script runs
  validation,       \* --validation of the video scanner (validation_function)
  decoder,          \* --decoder of the video scanner ("none" when not given)
  max_workers,      \* os.cpu_count()
  toolInstalled,    \* whether ffmpeg/ffprobe can be spawned at all
  DIRECTORIES,      \* the configured root lists, one per section, in order
  OUTPUT_FILES,     \* per section with an entry: the rows its CSV file holds
                    \* from an earlier run when main starts
  section,          \* index of the section main is processing
  total_corrupted,  \* per section: len(corrupted_files) once it has returned
  all_files,        \* positions of the section's list of candidates, 1..n
  path,             \* the file each position of that list names
  fileKind,         \* what is on disk behind each candidate when it is validated
  future,           \* state of each submitted future
  calls,            \* per file: the external processes spawned, in order
  ret,              \* per file: the value the validator returned
  collected,        \* per file: how often as_completed handed it to the loop
  corrupted_files,  \* the list the collection loop appends to
  outputFile,       \* the section's CSV file
  mainpc            \* position of the main thread

vars == <<scanner, validation, decoder, max_workers, toolInstalled, DIRECTORIES,
          OUTPUT_FILES, section, total_corrupted, all_files, path, fileKind, future, calls, ret,
          collected, corrupted_files, outputFile, mainpc>>

\* What the command line, the configuration file and the machine fix.
static == <<scanner, validation, decoder, max_workers, toolInstalled, DIRECTORIES,
            OUTPUT_FILES>>

\* What does not change while one section's pool runs.
config == <<static, section, total_corrupted, all_files, path, fileKind>>

Files == 1..MaxFiles
FileKinds == {"ok", "empty", "missing"}

\* ------------------------------------------------------- return values
\* A validator's return value as a record: flag is the first component of
\* the tuple ("True"/"False"), "path" for the audio scanner's
\* (file_path, reason) tuple, "None" for the audio scanner's bare None.
Pending == [flag |-> "pending", reason |-> "None"]
Tuple(flag, reason) == [flag |-> flag, reason |-> reason]
PyNone == [flag |-> "None", reason |-> "None"]

\* Python truthiness of a returned first component / of the audio result.
Truthy(r) == r.flag \in {"True", "path"}

\* A future whose callable raised holds the exception instead of a value;
\* reason is then str(e).  No validator of the scanners lets one escape.
Raised(r) == r.flag = "raised"

\* ------------------------------------------------ external process model
\* One entry of calls[f]: the stage it was spawned for and the process's
\* status.  running: spawned, not exited.  exit0/exit1: exited and reaped by
\* communicate()/run().  killed: process.kill() has sent SIGKILL and nothing
\* has waited for the process, which is still alive or not yet reaped.
\* gone: a killed process that has died and been reaped.
Alive == {"running", "killed"}
Call(stage, status) == [stage |-> stage, status |-> status]

LastCall(f) == calls[f][Len(calls[f])]
HasCall(f) == Len(calls[f]) > 0

SetLast(s, status) == [s EXCEPT ![Len(s)] = Call(s[Len(s)].stage, status)]

\* ----------------------------------------------------------- messages
MsgExistence == "File is empty or does not exist"
MsgSpawn == "[Errno 2] No such file or directory: 'ffmpeg'"
MsgDecoder == "Invalid decoder method: None"
MsgFloat == "could not convert string to float: 'N/A'"

\* ------------------------------------------------------------- validators
\* Each validator is given as two operators: what it does when the worker
\* calls it (Enter) and what it does when communicate()/run() returns for
\* the process of a stage (AfterExit).  Both yield
\*   [spawn |-> stage to spawn next, or "none", ret |-> value returned or Pending].

Goto(stage) == [spawn |-> stage, ret |-> Pending]
Return(r) == [spawn |-> "none", ret |-> r]

\* Wraps the exception text the way each validator's except clause does.
VideoError(msg) == Tuple("False", "Error occurred: " \o msg)
SwError(msg) == Tuple("True", "Playback error: Error occurred: " \o msg)

DecoderOk == decoder \in {"hardware", "software"}

\* The argv a "match decoder" statement builds for a playback stage
\* ("playback" is validate_playback's single stage); NoCommand stands for
\* "case _: raise ValueError".
NoCommand == <<>>
Seek(stage) ==
  CASE stage = "start" -> <<"-ss", "0">>
    [] stage = "middle" -> <<"-ss", "<midpoint>">>
    [] stage = "end" -> <<"-sseof", "-5">>
    [] OTHER -> <<>>

\* Mutation: the match statement of the middle probe has no "hardware" case.
Command_NoHardwareMiddle(dec, stage) ==
  CASE dec = "software" ->
         <<"ffmpeg", "-v", "error">> \o Seek(stage)
           \o <<"-i", "<file>", "-t", "5", "-f", "null", "-">>
    [] dec = "hardware" /\ stage # "middle" ->
         <<"ffmpeg", "-v", "error", "-hwaccel", "auto">> \o Seek(stage)
           \o <<"-i", "<file>", "-t", "5", "-f", "null", "-">>
    [] OTHER -> NoCommand

Command(dec, stage) ==
  CASE dec = "software" ->
         <<"ffmpeg", "-v", "error">> \o Seek(stage)
           \o <<"-i", "<file>", "-t", "5", "-f", "null", "-">>
    [] dec = "hardware" ->
         <<"ffmpeg", "-v", "error", "-hwaccel", "auto">> \o Seek(stage)
           \o <<"-i", "<file>", "-t", "5", "-f", "null", "-">>
    [] OTHER -> NoCommand

\* Popen of a stage: raises FileNotFoundError when the tool is missing.
VideoSpawn(stage) == IF toolInstalled THEN Goto(stage) ELSE Return(VideoError(MsgSpawn))

validate_metadata_Enter(f) == VideoSpawn("metadata")

\* Mutation: only the "Invalid data found" text makes the file corrupt.
validate_metadata_AfterExit_TextOnly(f, stage, rc, out, err) ==
  IF rc # 0 /\ err = "invalid"
  THEN Return(Tuple("False", "Invalid data found: <stderr>"))
  ELSE Return(Tuple("True", "None"))

validate_metadata_AfterExit(f, stage, rc, out, err) ==
  IF rc # 0
  THEN IF err = "invalid"
       THEN Return(Tuple("False", "Invalid data found: <stderr>"))
       ELSE Return(Tuple("False", "Metadata validation failed: <stderr>"))
  ELSE Return(Tuple("True", "None"))

validate_playback_Enter(f, dec) ==
  IF Command(dec, "playback") = NoCommand THEN Return(VideoError(MsgDecoder))
  ELSE VideoSpawn("playback")

validate_playback_AfterExit(f, dec, stage, rc, out, err) ==
  IF rc # 0
  THEN Return(Tuple("False", "Playback failed at start: <stderr>"))
  ELSE Return(Tuple("True", "None"))

validate_playback_indepth_Enter(f, dec) ==
  IF Command(dec, "start") = NoCommand THEN Return(VideoError(MsgDecoder))
  ELSE VideoSpawn("start")

validate_playback_indepth_AfterExit(f, dec, stage, rc, out, err) ==
  CASE stage = "start" ->
         IF rc # 0 THEN Return(Tuple("False", "Playback failed at the start: <stderr>"))
         ELSE VideoSpawn("duration")
    [] stage = "duration" ->
         IF rc # 0 THEN Return(Tuple("False", "Failed to fetch file duration: <stderr>"))
         ELSE IF out = "" THEN Return(Tuple("False", "Failed to fetch file duration"))
         ELSE IF out # "number" THEN Return(VideoError(MsgFloat))
         ELSE IF Command(dec, "middle") = NoCommand THEN Return(VideoError(MsgDecoder))
         ELSE VideoSpawn("middle")
    [] stage = "middle" ->
         IF rc # 0 THEN Return(Tuple("False", "Playback failed at the middle: <stderr>"))
         ELSE IF Command(dec, "end") = NoCommand THEN Return(VideoError(MsgDecoder))
         ELSE VideoSpawn("end")
    [] OTHER ->
         IF rc # 0 THEN Return(Tuple("False", "Playback failed at the end: <stderr>"))
         ELSE Return(Tuple("True", "None"))

\* Playback_Software: validate_playback wrapped by is_video_corrupted, which
\* flips the flag and prefixes the reason.
sw_validate_playback_Enter(f) ==
  IF toolInstalled THEN Goto("playback") ELSE Return(SwError(MsgSpawn))

sw_validate_playback_AfterExit(f, stage, rc, out, err) ==
  IF rc # 0
  THEN Return(Tuple("True", "Playback error: Playback failed at start: <stderr>"))
  ELSE Return(Tuple("False", "None"))

\* Audio: validate_audio_file = validate_audio_metadata then
\* validate_audio_playback.
AudioSpawn(stage, wrapper) ==
  IF toolInstalled THEN Goto(stage)
  ELSE Return(Tuple("path", wrapper \o MsgSpawn))

validate_audio_metadata_Enter(f) ==
  IF fileKind[f] # "ok" THEN Return(Tuple("path", MsgExistence))
  ELSE AudioSpawn("metadata", "Metadata validation error: ")

\* Mutation: float() raises outside the try block.
validate_audio_playback_AfterExit_NoExcept(f, stage, rc, out, err) ==
  CASE stage = "start" ->
         IF rc # 0 THEN Return(Tuple("path", "Playback failed at the start"))
         ELSE AudioSpawn("duration", "Playback validation error: ")
    [] stage = "duration" ->
         IF out = "" THEN Return(Tuple("path", "Failed to fetch file duration"))
         ELSE IF out # "number"
              THEN Return(Tuple("raised", MsgFloat))
         ELSE AudioSpawn("middle", "Playback validation error: ")
    [] stage = "middle" ->
         IF rc # 0 THEN Return(Tuple("path", "Playback failed at the middle"))
         ELSE AudioSpawn("end", "Playback validation error: ")
    [] OTHER ->
         IF rc # 0 THEN Return(Tuple("path", "Playback failed at the end"))
         ELSE Return(PyNone)

validate_audio_playback_AfterExit(f, stage, rc, out, err) ==
  CASE stage = "start" ->
         IF rc # 0 THEN Return(Tuple("path", "Playback failed at the start"))
         ELSE AudioSpawn("duration", "Playback validation error: ")
    [] stage = "duration" ->
         IF out = "" THEN Return(Tuple("path", "Failed to fetch file duration"))
         ELSE IF out # "number"
              THEN Return(Tuple("path", "Playback validation error: " \o MsgFloat))
         ELSE AudioSpawn("middle", "Playback validation error: ")
    [] stage = "middle" ->
         IF rc # 0 THEN Return(Tuple("path", "Playback failed at the middle"))
         ELSE AudioSpawn("end", "Playback validation error: ")
    [] OTHER ->
         IF rc # 0 THEN Return(Tuple("path", "Playback failed at the end"))
         ELSE Return(PyNone)

\* Mutation: validate_audio_file goes on to playback whatever the metadata
\* check returned.
validate_audio_file_AfterExit_AlwaysPlayback(f, stage, rc, out, err) ==
  IF stage = "metadata"
  THEN AudioSpawn("start", "Playback validation error: ")
  ELSE validate_audio_playback_AfterExit(f, stage, rc, out, err)

validate_audio_file_AfterExit(f, stage, rc, out, err) ==
  IF stage = "metadata"
  THEN IF rc # 0 THEN Return(Tuple("path", "Metadata validation failed: <stderr>"))
       ELSE AudioSpawn("start", "Playback validation error: ")
  ELSE validate_audio_playback_AfterExit(f, stage, rc, out, err)

\* Dispatch on the script and on validation_function.
Enter(f) ==
  CASE scanner = "audio" -> validate_audio_metadata_Enter(f)
    [] scanner = "video_sw" -> sw_validate_playback_Enter(f)
    [] scanner = "video" /\ validation = "metadata" -> validate_metadata_Enter(f)
    [] scanner = "video" /\ validation = "playback" -> validate_playback_Enter(f, decoder)
    [] OTHER -> validate_playback_indepth_Enter(f, decoder)

AfterExit(f, stage, rc, out, err) ==
  CASE scanner = "audio" -> validate_audio_file_AfterExit(f, stage, rc, out, err)
    [] scanner = "video_sw" -> sw_validate_playback_AfterExit(f, stage, rc, out, err)
    [] scanner = "video" /\ validation = "metadata" ->
         validate_metadata_AfterExit(f, stage, rc, out, err)
    [] scanner = "video" /\ validation = "playback" ->
         validate_playback_AfterExit(f, decoder, stage, rc, out, err)
    [] OTHER -> validate_playback_indepth_AfterExit(f, decoder, stage, rc, out, err)

\* Mutation: a timeout is reported like a non-zero exit.
OnTimeout_AsFailure(f, stage) ==
  CASE scanner = "video_sw" ->
         Tuple("True", "Playback error: Playback failed at start: <stderr>")
    [] scanner = "video" /\ validation = "metadata" ->
         Tuple("False", "Metadata validation failed: <stderr>")
    [] OTHER -> Tuple("False", "Playback failed at start: <stderr>")

\* except subprocess.TimeoutExpired: the value returned after process.kill().
OnTimeout(f, stage) ==
  CASE scanner = "video_sw" ->
         Tuple("True", "Playback error: Playback process timed out, Please Check Manually")
    [] scanner = "video" /\ validation = "metadata" ->
         Tuple("False", "Process timed out, Please Check Manually")
    [] OTHER -> Tuple("False", "Playback process timed out, Please Check Manually")

\* communicate(timeout=...) is used by both video scripts; the audio script
\* calls subprocess.run without a timeout.
HasTimeout == scanner # "audio"


\* ------------------------------------------------------------- discovery
VIDEO_EXTENSIONS ==
  {".mkv", ".avi", ".mp4", ".mov", ".wmv", ".mpg", ".mpeg", ".3gp", ".m4v"}
AUDIO_EXTENSIONS ==
  {".mp3", ".wav", ".ogg", ".flac", ".m4a", ".aac", ".wma", ".alac"}

\* str.lower() on the suffixes that occur below.
Lower(suffix) ==
  CASE suffix = ".MKV" -> ".mkv"
    [] suffix = ".FLAC" -> ".flac"
    [] OTHER -> suffix

\* The tree the configured roots point into.  Directory "A" and its
\* sub-directory "A/B" hold the media files: with n of them on disk, file n
\* is in "A/B" and files 1..n-1 are in "A", next to a resource-fork file and
\* a text file.  Directory "C" holds a sub-directory whose name ends in a
\* media extension and a regular file whose whole name is a media extension
\* (".mp4").  "M" does not exist.
\* A directory entry gives the file it names, whether the name starts with
\* "._", the name's text before and from its last dot, and whether the
\* entry is a directory.
Roots == {"A", "A/B"}
Entry(id, hidden, suffix) ==
  [id |-> id, hidden |-> hidden, stem |-> "x", suffix |-> suffix, isdir |-> FALSE]

MediaSuffix(k) ==
  IF scanner = "audio" THEN (IF k % 2 = 1 THEN ".mp3" ELSE ".FLAC")
  ELSE (IF k % 2 = 1 THEN ".mp4" ELSE ".MKV")

Listing(n, dir) ==
  CASE dir = "A/B" -> <<Entry(n, FALSE, MediaSuffix(n))>>
    [] dir = "A" ->
         [k \in 1..(n - 1) |-> Entry(k, FALSE, MediaSuffix(k))]
           \o <<Entry(n + 1, TRUE, MediaSuffix(1)), Entry(n + 2, FALSE, ".txt")>>
    [] dir = "C" ->
         <<[Entry(n + 3, FALSE, MediaSuffix(1)) EXCEPT !.isdir = TRUE],
           [Entry(n + 4, FALSE, MediaSuffix(1)) EXCEPT !.stem = ""]>>
    [] OTHER -> <<>>

\* os.path.isdir / Path.is_dir of a configured root.
IsDir(dir) == dir \in {"A", "A/B", "C"}

\* Every entry below a directory, the directory's own first.
Below(n, dir) ==
  IF dir = "A" THEN Listing(n, "A") \o Listing(n, "A/B") ELSE Listing(n, dir)

\* os.walk(directory) yields, per directory, the names that are not
\* directories, and nothing for a root it cannot list;
\* Path(directory).rglob("*"), called when the root is a directory, yields
\* every entry, directories included.
Walk(n, dir) ==
  IF ~IsDir(dir) THEN <<>>
  ELSE IF scanner = "audio" THEN Below(n, dir)
  ELSE SelectSeq(Below(n, dir), LAMBDA e : ~e.isdir)

\* PurePath.suffix: the name's text from its last dot, empty when that dot
\* is the name's first character.
PurePathSuffix(e) == IF e.stem = "" /\ ~e.hidden THEN "" ELSE e.suffix

\* The test an entry has to pass to become a candidate: the audio script
\* looks the lowered suffix up in the set, the video scripts ask whether the
\* lowered name ends with one of the extensions.
IsCandidate(e) ==
  /\ ~e.hidden
  /\ IF scanner = "audio"
     THEN Lower(PurePathSuffix(e)) \in AUDIO_EXTENSIONS
     ELSE Lower(e.suffix) \in VIDEO_EXTENSIONS

\* Mutation: the walk over the roots ends at the first root that is not a
\* directory.
RECURSIVE WalkAll_UntilMissing(_, _)
WalkAll_UntilMissing(n, dirs) ==
  IF dirs = <<>> \/ ~IsDir(Head(dirs)) THEN <<>>
  ELSE Walk(n, Head(dirs)) \o WalkAll_UntilMissing(n, Tail(dirs))

\* "for directory in directories": every root is walked, in order, and what
\* it yields is appended to the one list.
RECURSIVE WalkAll(_, _)
WalkAll(n, dirs) ==
  IF dirs = <<>> THEN <<>> ELSE Walk(n, Head(dirs)) \o WalkAll(n, Tail(dirs))

Candidates(n, dirs) == SelectSeq(WalkAll(n, dirs), IsCandidate)

Discover(n, dirs) ==
  [i \in DOMAIN Candidates(n, dirs) |-> Candidates(n, dirs)[i].id]

\* What can be behind a candidate when it is validated.
KindsOf(e) == IF e.isdir THEN {"dir"} ELSE FileKinds

\* The candidate lists a section's roots can yield, over every number of
\* media files on disk, each with what is behind every candidate.  A file
\* found twice is the same file both times.
Discoveries(dirs) ==
  UNION {{[path |-> Discover(n, dirs), fileKind |-> k] :
            k \in {kk \in [DOMAIN Discover(n, dirs) -> FileKinds \cup {"dir"}] :
                     /\ \A f \in DOMAIN kk : kk[f] \in KindsOf(Candidates(n, dirs)[f])
                     /\ Cardinality({f \in DOMAIN kk : kk[f] \in {"empty", "missing"}})
                          <= MaxBad
                     /\ \A f, g \in DOMAIN kk :
                          Discover(n, dirs)[f] = Discover(n, dirs)[g] => kk[f] = kk[g]}} :
         n \in {m \in 1..MaxFiles : Len(Discover(m, dirs)) <= MaxFiles}}

\* ------------------------------------------------------------------ Init
Scanners == {"video", "video_sw", "audio"}

\* Every root list of up to MaxRoots roots.
RootLists == UNION {[1..k -> Roots] : k \in 1..MaxRoots}

\* The state when main starts: the command line and the configuration are
\* read, no section has been walked yet.
InitConfig(scanners, decoders, configs) ==
  /\ scanner \in scanners
  /\ validation \in (IF scanner = "video" THEN {"metadata", "playback", "indepth"}
                     ELSE IF scanner = "video_sw" THEN {"playback"} ELSE {"audio"})
  /\ decoder \in (IF scanner = "video" THEN decoders ELSE {"none"})
  /\ max_workers \in 1..MaxWorkers
  /\ toolInstalled \in BOOLEAN
  /\ DIRECTORIES \in configs
  /\ section = 1
  /\ total_corrupted = [s \in DOMAIN DIRECTORIES |-> 0]
  /\ all_files = {}
  /\ path = <<>>
  /\ fileKind = <<>>
  /\ future = <<>>
  /\ calls = <<>>
  /\ ret = <<>>
  /\ collected = <<>>
  /\ corrupted_files = <<>>
  /\ outputFile = [written |-> FALSE, rows |-> <<>>]
  /\ mainpc = "submit"

\* Every section has an output file, and none of the files exists yet.
InitWith(scanners, decoders, configs) ==
  /\ InitConfig(scanners, decoders, configs)
  /\ OUTPUT_FILES = [s \in DOMAIN DIRECTORIES |-> <<>>]

\* One section (the audio script has a single list) with the single root
\* "A"; --decoder software or not given.
Init == InitWith(Scanners, {"software", "none"}, {<< <<"A">> >>})

\* One section whose root list is any list of roots: a root listed twice
\* and a root nested in another one included.
RootsInit == InitWith(Scanners, {"software", "none"}, {<<r>> : r \in RootLists})

\* The video scanner's playback strategies, the ones the decoder is passed
\* to, with every value of --decoder.
DecoderInit ==
  /\ InitWith({"video"}, {"hardware", "software", "none"}, {<< <<"A">> >>})
  /\ validation \in {"playback", "indepth"}

\* The video scanner's single-point playback over up to MaxSections sections.
SectionsInit ==
  /\ InitWith({"video"}, {"software"},
              UNION {[1..k -> {<<"A">>}] : k \in 1..MaxSections})
  /\ validation = "playback"

\* Root lists with a root that does not exist, and the directory of
\* unusual names, for the metadata check of the video and the audio scanner.
DiscoveryRootLists == {<<"M">>, <<"M", "A">>, <<"A", "M">>, <<"C">>}

DiscoveryInit ==
  /\ InitWith({"video", "audio"}, {"none"}, {<<r>> : r \in DiscoveryRootLists})
  /\ validation \in {"metadata", "audio"}

\* What an earlier run can have left in a section's CSV file: nothing, or
\* a row about a file that was corrupted then.
EarlierRows == {<<>>, << <<1, "Playback failed at start: <stderr>">> >>}

\* The video scanner's single-point playback over up to MaxSections
\* sections, where any section can lack its entry in OUTPUT_FILES and any
\* output file can exist already.
OutputsInit ==
  /\ InitConfig({"video"}, {"software"},
                UNION {[1..k -> {<<"A">>}] : k \in 1..MaxSections})
  /\ validation = "playback"
  /\ OUTPUT_FILES \in UNION {[S -> EarlierRows] : S \in SUBSET DOMAIN DIRECTORIES}

\* ---------------------------------------------------------- worker pool
Running == {f \in all_files : future[f] = "running"}
Queued == {f \in all_files : future[f] = "queued"}

\* The executor's work queue is FIFO: the next work item is the oldest one.
NextQueued == CHOOSE f \in Queued : \A g \in Queued : f <= g

\* At most max_workers worker threads exist, each runs one work item at a time.
WorkerFree == Cardinality(Running) < max_workers

\* main takes the next section and looks its output file up; then
\* process_section starts on it: the section's roots are walked into
\* all_files and executor.submit is called for every entry of the list.
Submit ==
  /\ mainpc = "submit"
  /\ IF section \notin DOMAIN OUTPUT_FILES
     THEN \* OUTPUT_FILES[section] raises KeyError, which nothing catches
          /\ mainpc' = "keyerror"
          /\ UNCHANGED <<all_files, path, fileKind, future, calls, ret, collected,
                         corrupted_files, outputFile>>
     ELSE /\ \E d \in Discoveries(DIRECTORIES[section]) :
               /\ path' = d.path
               /\ all_files' = DOMAIN d.path
               /\ fileKind' = d.fileKind
               /\ future' = [f \in DOMAIN d.path |-> "queued"]
               /\ calls' = [f \in DOMAIN d.path |-> <<>>]
               /\ ret' = [f \in DOMAIN d.path |-> Pending]
               /\ collected' = [f \in DOMAIN d.path |-> 0]
          /\ corrupted_files' = <<>>
          /\ outputFile' = [written |-> FALSE, rows |-> OUTPUT_FILES[section]]
          /\ mainpc' = "collect"
  /\ UNCHANGED <<static, section, total_corrupted>>

\* Mutation: the validators store their result in one variable that every
\* worker writes.
Apply_SharedResult(f, step, cs) ==
  IF step.spawn # "none"
  THEN /\ calls' = [cs EXCEPT ![f] = Append(@, Call(step.spawn, "running"))]
       /\ future' = [future EXCEPT ![f] = "running"]
       /\ ret' = ret
  ELSE /\ calls' = cs
       /\ future' = [future EXCEPT ![f] = "done"]
       /\ ret' = [g \in DOMAIN ret |-> step.ret]

\* Applies a validator step: either the next process is spawned or the
\* validator returns and the future completes.
Apply(f, step, cs) ==
  IF step.spawn # "none"
  THEN /\ calls' = [cs EXCEPT ![f] = Append(@, Call(step.spawn, "running"))]
       /\ future' = [future EXCEPT ![f] = "running"]
       /\ ret' = ret
  ELSE /\ calls' = cs
       /\ future' = [future EXCEPT ![f] = "done"]
       /\ ret' = [ret EXCEPT ![f] = step.ret]

\* A free worker thread takes the oldest work item and calls the validator,
\* which runs up to its first Popen()/run() or returns at once.
RunTask(f) ==
  /\ f \in all_files
  /\ mainpc \in {"collect", "interrupted", "raised"}
  /\ Queued # {}
  /\ f = NextQueued
  /\ WorkerFree
  /\ Apply(f, Enter(f), calls)
  /\ UNCHANGED <<config, collected, corrupted_files, outputFile, mainpc>>

\* What a process of a stage can print and exit with.  ffprobe/ffmpeg cannot
\* open a missing or empty input: they exit non-zero and print no duration.
Outcomes(f, stage) ==
  IF fileKind[f] # "ok"
  THEN [rc : {1}, out : {""}, err : {"invalid", "other"}]
  ELSE IF stage = "duration"
  THEN [rc : {0, 1}, out : {"", "number", "N/A"}, err : {"other"}]
  ELSE IF stage = "metadata"
  THEN [rc : {0}, out : {""}, err : {"other"}]
         \cup [rc : {1}, out : {""}, err : {"invalid", "other"}]
  ELSE [rc : {0, 1}, out : {""}, err : {"other"}]

\* The process of the current stage exits; communicate()/run() returns and
\* the validator continues up to its next Popen()/run() or returns.
ProcExit(f) ==
  /\ f \in all_files
  /\ future[f] = "running"
  /\ LastCall(f).status = "running"
  /\ \E o \in Outcomes(f, LastCall(f).stage) :
       Apply(f, AfterExit(f, LastCall(f).stage, o.rc, o.out, o.err),
             [calls EXCEPT ![f] = SetLast(@, IF o.rc = 0 THEN "exit0" ELSE "exit1")])
  /\ UNCHANGED <<config, collected, corrupted_files, outputFile, mainpc>>

\* Mutation: on a timeout the validator starts the stage again and leaves
\* the process that timed out running.
ProcTimeout_Retry(f) ==
  /\ f \in all_files
  /\ HasTimeout
  /\ future[f] = "running"
  /\ LastCall(f).status = "running"
  /\ Len(calls[f]) < 2
  /\ calls' = [calls EXCEPT ![f] = Append(@, Call(LastCall(f).stage, "running"))]
  /\ UNCHANGED <<config, future, ret, collected, corrupted_files, outputFile, mainpc>>

\* communicate(timeout=30) raises TimeoutExpired while the process has not
\* exited: process.kill() and return.  kill() only sends the signal; the
\* validator returns without waiting for the process.
ProcTimeout(f) ==
  /\ f \in all_files
  /\ HasTimeout
  /\ future[f] = "running"
  /\ LastCall(f).status = "running"
  /\ calls' = [calls EXCEPT ![f] = SetLast(@, "killed")]
  /\ future' = [future EXCEPT ![f] = "done"]
  /\ ret' = [ret EXCEPT ![f] = OnTimeout(f, LastCall(f).stage)]
  /\ UNCHANGED <<config, collected, corrupted_files, outputFile, mainpc>>

\* The operating system delivers the SIGKILL sent by process.kill(): the
\* process dies and is reaped.
ProcDies(f) ==
  /\ f \in all_files
  /\ HasCall(f)
  /\ LastCall(f).status = "killed"
  /\ calls' = [calls EXCEPT ![f] = SetLast(@, "gone")]
  /\ UNCHANGED <<config, future, ret, collected, corrupted_files, outputFile, mainpc>>

\* Mutation: every loop lists a file when the first component of its result
\* is true.
IsListed_Truthy(r) == Truthy(r)

\* ------------------------------------------------------ collection loop
\* The test the loop applies to a future's result before appending.
IsListed(r) ==
  CASE scanner = "video" -> ~Truthy(r)       \* if not corrupted:
    [] OTHER -> Truthy(r)                     \* if corrupted: / if result:

\* The reason the loop's except clause lists for an exception re-raised by
\* future.result().
CaughtReason(r) ==
  IF scanner = "video" THEN "Unexpected error: " \o r.reason ELSE r.reason

\* The list after the loop body has handled the future of f.
AppendOutcome(rows, f) ==
  IF Raised(ret[f])
  THEN IF scanner = "audio" THEN rows
       ELSE Append(rows, <<path[f], CaughtReason(ret[f])>>)
  ELSE IF IsListed(ret[f])
       THEN Append(rows, <<path[f], ret[f].reason>>)
       ELSE rows

\* One iteration of "for future in as_completed(futures)".  future.result()
\* re-raises a stored exception: the video loops catch it and list the file,
\* the audio loop has no try and the exception leaves the loop.
Collect(f) ==
  /\ f \in all_files
  /\ mainpc = "collect"
  /\ future[f] = "done"
  /\ collected[f] = 0
  /\ collected' = [collected EXCEPT ![f] = @ + 1]
  /\ corrupted_files' = AppendOutcome(corrupted_files, f)
  /\ mainpc' = IF Raised(ret[f]) /\ scanner = "audio" THEN "raised" ELSE mainpc
  /\ UNCHANGED <<config, future, calls, ret, outputFile>>

\* Mutation: the loop stops after the first future it was handed.
AllCollected_FirstOnly == \E f \in all_files : collected[f] >= 1

\* as_completed is exhausted when every future has been yielded.
AllCollected == \A f \in all_files : collected[f] >= 1

\* The video scripts write the CSV only when the list is not empty; the
\* audio script always writes it.
WriteCsv(file, rows) ==
  IF scanner = "audio" \/ rows # <<>>
  THEN [written |-> TRUE, rows |-> rows]
  ELSE file

\* Mutation: process_section returns after the first collected future,
\* without joining the pool.
ReturnSection_NoJoin ==
  /\ mainpc = "collect"
  /\ \E f \in all_files : collected[f] >= 1
  /\ outputFile' = WriteCsv(outputFile, corrupted_files)
  /\ total_corrupted' = [total_corrupted EXCEPT ![section] = Len(corrupted_files)]
  /\ IF section < Len(DIRECTORIES)
     THEN \* process_section's locals are gone when main asks for the next section
          /\ section' = section + 1
          /\ mainpc' = "submit"
          /\ all_files' = {}
          /\ path' = <<>>
          /\ fileKind' = <<>>
          /\ future' = <<>>
          /\ calls' = <<>>
          /\ ret' = <<>>
          /\ collected' = <<>>
          /\ corrupted_files' = <<>>
     ELSE /\ section' = section
          /\ mainpc' = "returned"
          /\ UNCHANGED <<all_files, path, fileKind, future, calls, ret, collected,
                         corrupted_files>>
  /\ UNCHANGED static

\* The loop ends, the executor's with-block exits (shutdown(wait=True)),
\* the CSV is written and process_section returns; main stores the count
\* and goes on to the next section or, after the last one, to its end.
ReturnSection ==
  /\ mainpc = "collect"
  /\ AllCollected
  /\ Running = {} /\ Queued = {}
  /\ outputFile' = WriteCsv(outputFile, corrupted_files)
  /\ total_corrupted' = [total_corrupted EXCEPT ![section] = Len(corrupted_files)]
  /\ IF section < Len(DIRECTORIES)
     THEN \* process_section's locals are gone when main asks for the next section
          /\ section' = section + 1
          /\ mainpc' = "submit"
          /\ all_files' = {}
          /\ path' = <<>>
          /\ fileKind' = <<>>
          /\ future' = <<>>
          /\ calls' = <<>>
          /\ ret' = <<>>
          /\ collected' = <<>>
          /\ corrupted_files' = <<>>
     ELSE /\ section' = section
          /\ mainpc' = "returned"
          /\ UNCHANGED <<all_files, path, fileKind, future, calls, ret, collected,
                         corrupted_files>>
  /\ UNCHANGED static

\* KeyboardInterrupt is raised in the main thread inside the loop.  It
\* leaves the loop; the executor's with-block still runs shutdown(wait=True).
Interrupt ==
  /\ mainpc = "collect"
  /\ ~AllCollected
  /\ mainpc' = "interrupted"
  /\ UNCHANGED <<config, future, calls, ret, collected, corrupted_files, outputFile>>

\* shutdown(wait=True) has joined every worker thread, which happens once
\* every queued work item has run; the exception then leaves the script.
ExitInterrupted ==
  /\ mainpc \in {"interrupted", "raised"}
  /\ Running = {} /\ Queued = {}
  /\ mainpc' = "exited"
  /\ UNCHANGED <<config, future, calls, ret, collected, corrupted_files, outputFile>>

Next ==
  \/ Submit
  \/ \E f \in all_files : RunTask(f)
  \/ \E f \in all_files : ProcExit(f)
  \/ \E f \in all_files : ProcTimeout(f)
  \/ \E f \in all_files : ProcDies(f)
  \/ \E f \in all_files : Collect(f)
  \/ ReturnSection
  \/ Interrupt
  \/ ExitInterrupted

Spec == Init /\ [][Next]_vars

\* The same program over every list of roots, and over several sections.
RootsSpec == RootsInit /\ [][Next]_vars
DecoderSpec == DecoderInit /\ [][Next]_vars
SectionsSpec == SectionsInit /\ [][Next]_vars
DiscoverySpec == DiscoveryInit /\ [][Next]_vars
OutputsSpec == OutputsInit /\ [][Next]_vars


\* Program steps are taken when they can be: a free worker takes the next
\* work item, a pending timeout fires, the main thread keeps iterating.
\* Nothing obliges an external process to exit or the user to interrupt.
Fairness ==
  /\ WF_vars(Submit)
  /\ \A f \in Files : WF_vars(RunTask(f))
  /\ \A f \in Files : WF_vars(ProcTimeout(f))
  /\ \A f \in Files : WF_vars(Collect(f))
  /\ WF_vars(ReturnSection)
  /\ WF_vars(ExitInterrupted)

FairSpec == Spec /\ Fairness

\* =================================================================== claims
\* Every process spawned so far, as <<file, position in calls[file]>>.
AllCalls == UNION {{<<f, i>> : i \in 1..Len(calls[f])} : f \in all_files}
StatusOf(c) == calls[c[1]][c[2]].status
AliveProcs == {c \in AllCalls : StatusOf(c) \in Alive}

TimeoutReasons ==
  {"Process timed out, Please Check Manually",
   "Playback process timed out, Please Check Manually",
   "Playback error: Playback process timed out, Please Check Manually"}
IsTimeout(r) == r.reason \in TimeoutReasons

SpawnErrorReasons ==
  {"Error occurred: " \o MsgSpawn,
   "Playback error: Error occurred: " \o MsgSpawn,
   "Metadata validation error: " \o MsgSpawn,
   "Playback validation error: " \o MsgSpawn}

Returned(f) == future[f] = "done"

\* C1: when the pool run returns, every submitted file's future has
\* completed with a returned value and has been handed to the collection
\* loop exactly once; no future is ever collected twice, none before it is
\* done, and no file is listed more than once.
C1_ExactlyOneOutcome ==
  /\ \A f \in all_files :
       /\ collected[f] <= 1
       /\ collected[f] = 1 => Returned(f) /\ ret[f] # Pending
       /\ Cardinality({i \in DOMAIN corrupted_files : corrupted_files[i][1] = path[f]})
            = (IF collected[f] = 1 /\ IsListed(ret[f]) THEN 1 ELSE 0)
  /\ mainpc = "returned" =>
       \A f \in all_files : Returned(f) /\ ret[f] # Pending /\ collected[f] = 1

\* The run has returned over two or more files with a timed-out task, a task
\* that ended in a caught exception and fewer workers than files.
C1_Witness ==
  /\ mainpc = "returned"
  /\ Cardinality(all_files) >= 2
  /\ max_workers < Cardinality(all_files)
  /\ \E f, g \in all_files :
       /\ IsTimeout(ret[f])
       /\ ret[g].reason = "Error occurred: " \o MsgFloat

\* C2: at most max_workers external processes are alive at any time.
C2_ProcessBound == Cardinality(AliveProcs) <= max_workers

\* C3: once a validator has returned a timeout result, no process it
\* spawned is still alive or unreaped.
C3_TimeoutLeavesNoProcess ==
  \A f \in all_files :
    Returned(f) /\ IsTimeout(ret[f]) =>
      \A i \in 1..Len(calls[f]) : calls[f][i].status \notin Alive

\* C4: the scan eventually ends (returns, or exits after an interrupt) even
\* when an external process never exits on its own.
C4_ScanTerminates == <>(mainpc \in {"returned", "exited"})

\* C5: a missing or empty file has no external process spawned for it and,
\* once validated, carries the existence reason and is listed as corrupt.
C5_ExistenceFastPath ==
  \A f \in all_files :
    fileKind[f] # "ok" =>
      /\ calls[f] = <<>>
      /\ Returned(f) => ret[f].reason = MsgExistence /\ IsListed(ret[f])

\* C6: once the scan is cancelled no further external process is spawned
\* (queued validations are not run, running ones do not go on to a later
\* stage), and when the scanner has exited none of its processes is alive.
C6_CancelStopsPool ==
  [][ /\ mainpc = "interrupted" =>
           \A f \in all_files : Len(calls'[f]) = Len(calls[f])
      /\ mainpc' = "exited" => AliveProcs' = {} ]_vars

\* C7: when a cancelled scan has exited, the outcomes collected before the
\* cancellation are in the report.
C7_PartialOutcomesReported ==
  mainpc = "exited" /\ corrupted_files # <<>> =>
    outputFile.written /\ outputFile.rows = corrupted_files

\* The stage a reason names, "none" when it names no stage.
StageNamed(reason) ==
  CASE reason \in {"Playback failed at the start: <stderr>",
                   "Playback failed at the start"} -> "start"
    [] reason \in {"Failed to fetch file duration: <stderr>",
                   "Failed to fetch file duration"} -> "duration"
    [] reason \in {"Playback failed at the middle: <stderr>",
                   "Playback failed at the middle"} -> "middle"
    [] reason \in {"Playback failed at the end: <stderr>",
                   "Playback failed at the end"} -> "end"
    [] reason \in {"Metadata validation failed: <stderr>",
                   "Invalid data found: <stderr>"} -> "metadata"
    [] reason \in {"Playback failed at start: <stderr>",
                   "Playback error: Playback failed at start: <stderr>"} -> "playback"
    [] OTHER -> "none"

MultiPoint == scanner = "audio" \/ (scanner = "video" /\ validation = "indepth")
PointStages == {"start", "duration", "middle", "end"}
StageOrder == <<"start", "duration", "middle", "end">>

\* The probes of the multi-point stages spawned for a file, in order.
Probes(f) == SelectSeq(calls[f], LAMBDA c : c.stage \in PointStages)
Failed(c) == c.status \in {"exit1", "killed", "gone"}
IsValid(r) == r.flag \in {"True", "None"}

\* C8: in multi-point playback every probe before the last one spawned
\* has succeeded, a returned validation whose last probe failed gives a
\* reason naming that probe's stage, and a failed start probe is the only
\* probe of its file.
C8_ShortCircuit ==
  MultiPoint =>
    \A f \in all_files :
      LET p == Probes(f) IN
        /\ \A i \in 1..Len(p) : i < Len(p) => ~Failed(p[i])
        /\ (Returned(f) /\ Len(p) > 0 /\ Failed(p[Len(p)])) =>
              StageNamed(ret[f].reason) = p[Len(p)].stage
        /\ (Len(p) > 0 /\ Failed(p[1])) => Len(p) = 1

\* C9: in multi-point playback the probes of a file are spawned in the
\* order start, duration, middle, end, each after the previous one exited
\* with code 0, and the file is Valid only after all four exited with 0.
C9_StageOrder ==
  MultiPoint =>
    \A f \in all_files :
      LET p == Probes(f) IN
        /\ Len(p) <= 4
        /\ \A i \in 1..Len(p) : p[i].stage = StageOrder[i]
        /\ \A i \in 1..Len(p) : i < Len(p) => p[i].status = "exit0"
        /\ (Returned(f) /\ IsValid(ret[f])) =>
              Len(p) = 4 /\ \A i \in 1..4 : p[i].status = "exit0"

\* C10: when the external tool cannot be spawned, no file is listed as
\* corrupt for that reason, and the scan does not run to its normal end.
C10_MissingToolIsFatal ==
  /\ \A i \in DOMAIN corrupted_files : corrupted_files[i][2] \notin SpawnErrorReasons
  /\ (\E f \in all_files : ret[f].reason \in SpawnErrorReasons) => mainpc # "returned"

\* C11: with a playback strategy and a decoder that is neither "hardware"
\* nor "software" (the unset decoder included), no file's validation is ever
\* run, no process is spawned and no file is listed for the decoder error.
C11_InvalidDecoderFailsFast ==
  (scanner = "video" /\ validation \in {"playback", "indepth"} /\ ~DecoderOk) =>
    /\ \A f \in all_files : future[f] \notin {"running", "done"} /\ calls[f] = <<>>
    /\ corrupted_files = <<>>

\* Reasons that carry the text of an exception caught inside a validator.
ExceptionReasons ==
  SpawnErrorReasons \cup {"Error occurred: " \o MsgDecoder,
                          "Error occurred: " \o MsgFloat,
                          "Playback validation error: " \o MsgFloat}
FromException(r) == Raised(r) \/ r.reason \in ExceptionReasons

\* C12: an exception raised while validating a file never leaves the pool
\* run; once collected it is a row of that file with that file's reason,
\* every row carries the reason of its own file, an idle pool has completed
\* every future, and a returned run has validated and collected every file.
C12_ExceptionConfined ==
  /\ mainpc # "raised"
  /\ \A f \in all_files :
       collected[f] = 1 /\ FromException(ret[f]) =>
         \E i \in DOMAIN corrupted_files :
           corrupted_files[i] = <<path[f], IF Raised(ret[f]) THEN CaughtReason(ret[f])
                                           ELSE ret[f].reason>>
  /\ \A i \in DOMAIN corrupted_files :
       \E f \in all_files :
         /\ path[f] = corrupted_files[i][1]
         /\ corrupted_files[i][2] \in {ret[f].reason, CaughtReason(ret[f])}
  /\ (mainpc = "collect" /\ Running = {} /\ Queued = {}) =>
       \A f \in all_files : Returned(f)
  /\ mainpc = "returned" =>
       \A f \in all_files : Returned(f) /\ collected[f] = 1

\* A returned audio run with one worker whose first file ended in the
\* float() exception and whose second file, validated afterwards, is valid.
C12_Witness ==
  /\ mainpc = "returned"
  /\ scanner = "audio"
  /\ max_workers = 1
  /\ \E f, g \in all_files :
       /\ f < g
       /\ ret[f].reason = "Playback validation error: " \o MsgFloat
       /\ \E i \in DOMAIN corrupted_files : corrupted_files[i][1] = path[f]
       /\ ret[g] = PyNone
       /\ collected[g] = 1

\* C13: no two rows of a section's written report name the same file,
\* whatever the list of roots (a root listed twice, a root inside another).
C13_PathOnce ==
  \A i, j \in DOMAIN outputFile.rows :
    i # j => outputFile.rows[i][1] # outputFile.rows[j][1]

\* C14: when the last two futures of a run are both done and not yet
\* collected, the report written is the same whichever of the two
\* as_completed yields first.
C14_OrderIndependent ==
  \A f, g \in all_files :
    ( /\ mainpc = "collect"
      /\ f # g
      /\ future[f] = "done" /\ collected[f] = 0
      /\ future[g] = "done" /\ collected[g] = 0
      /\ \A h \in all_files \ {f, g} : collected[h] = 1 ) =>
        WriteCsv(outputFile, AppendOutcome(AppendOutcome(corrupted_files, f), g)).rows
          = WriteCsv(outputFile, AppendOutcome(AppendOutcome(corrupted_files, g), f)).rows

\* The last process of a validation was killed on its timeout / exited
\* with a non-zero code.
TimedOut(f) == HasCall(f) /\ LastCall(f).status \in {"killed", "gone"}
ExitedNonZero(f) == HasCall(f) /\ LastCall(f).status = "exit1"

\* C15: a returned validation carries a timeout reason exactly when its
\* process was killed on a timeout, at whatever stage; one that ended on a
\* non-zero exit never does; and a collected timed-out file is in the list
\* with its timeout reason.
C15_TimeoutDistinct ==
  \A f \in all_files :
    /\ Returned(f) => (IsTimeout(ret[f]) <=> TimedOut(f))
    /\ Returned(f) /\ ExitedNonZero(f) => ~IsTimeout(ret[f])
    /\ collected[f] = 1 /\ TimedOut(f) =>
         \E i \in DOMAIN corrupted_files :
           /\ corrupted_files[i] = <<path[f], ret[f].reason>>
           /\ corrupted_files[i][2] \in TimeoutReasons

\* A returned in-depth run in which one file timed out at the middle probe
\* and another failed its end probe with a non-zero exit; both are listed.
C15_Witness ==
  /\ mainpc = "returned"
  /\ validation = "indepth"
  /\ \E f, g \in all_files :
       /\ TimedOut(f) /\ LastCall(f).stage = "middle"
       /\ ExitedNonZero(g) /\ LastCall(g).stage = "end"
       /\ Len(corrupted_files) = 2

\* The strategies that spawn one process per file.
SingleInvocation ==
  scanner = "video_sw" \/ (scanner = "video" /\ validation \in {"metadata", "playback"})

\* A returned value that says the file is valid.
Valid(r) == r # Pending /\ ~Raised(r) /\ ~IsListed(r)

\* Reasons that end with the stderr the process printed.
StderrReasons ==
  {"Metadata validation failed: <stderr>", "Invalid data found: <stderr>",
   "Playback failed at start: <stderr>",
   "Playback error: Playback failed at start: <stderr>"}

\* C16: under a single-invocation strategy a validation whose one process
\* has exited is Valid exactly when the exit code was 0, and otherwise
\* carries a reason that names the strategy's stage and ends with the
\* captured stderr.  The audio scanner's metadata check fails the same way
\* on a non-zero exit and lets the file through on exit code 0.
C16_ExitCodeDecides ==
  \A f \in all_files :
    /\ SingleInvocation => Len(calls[f]) <= 1
    /\ (SingleInvocation /\ Returned(f) /\ HasCall(f)
          /\ LastCall(f).status \in {"exit0", "exit1"}) =>
         /\ Valid(ret[f]) <=> LastCall(f).status = "exit0"
         /\ LastCall(f).status = "exit1" =>
              /\ StageNamed(ret[f].reason) = LastCall(f).stage
              /\ ret[f].reason \in StderrReasons
    /\ (scanner = "audio" /\ HasCall(f)) =>
         /\ calls[f][1].stage = "metadata"
         /\ calls[f][1].status = "exit1" =>
              /\ Len(calls[f]) = 1
              /\ Returned(f)
              /\ ret[f] = Tuple("path", "Metadata validation failed: <stderr>")
         /\ calls[f][1].status = "exit0" =>
              StageNamed(ret[f].reason) # "metadata"

\* A returned metadata run: the prober exited with 0 for one file, which is
\* valid, and with a non-zero code for another, which is listed.
C16_Witness ==
  /\ mainpc = "returned"
  /\ scanner = "video" /\ validation = "metadata"
  /\ \E f, g \in all_files :
       /\ HasCall(f) /\ LastCall(f).status = "exit0" /\ Valid(ret[f])
       /\ ExitedNonZero(g)
       /\ corrupted_files = <<<<path[g], "Invalid data found: <stderr>">>>>

\* C17: in multi-point playback, when the duration probe has exited with a
\* non-zero code, or has exited and the validation stopped there (it
\* printed nothing or no number), the validation has returned a reason
\* naming the duration stage and no middle or end probe was spawned.
C17_DurationFailureStops ==
  MultiPoint =>
    \A f \in all_files :
      LET p == Probes(f) IN
        (Len(p) >= 2 /\ p[2].stage = "duration") =>
          /\ p[2].status = "exit1" =>
               /\ Len(p) = 2
               /\ Returned(f)
               /\ StageNamed(ret[f].reason) = "duration"
          /\ (p[2].status = "exit0" /\ Len(p) = 2 /\ Returned(f)) =>
               StageNamed(ret[f].reason) = "duration"

\* The hardware argv is the software argv with "-hwaccel auto" put in
\* after "-v error".
AddsOnlyHwaccel(stage) ==
  /\ Command("software", stage) # NoCommand
  /\ Command("hardware", stage)
       = SubSeq(Command("software", stage), 1, 3) \o <<"-hwaccel", "auto">>
           \o SubSeq(Command("software", stage), 4, Len(Command("software", stage)))

\* C18: for every file of a playback run of the video scanner, "hardware"
\* and "software" take the same step on entry and after every result the
\* process of the file's current stage can give (the same next stage
\* spawned or the same value returned), and what they pass to ffmpeg
\* differs by the acceleration flags only.
C18_DecoderSameFlow ==
  (scanner = "video" /\ validation \in {"playback", "indepth"}) =>
    \A f \in all_files :
      /\ validate_playback_Enter(f, "hardware") = validate_playback_Enter(f, "software")
      /\ validate_playback_indepth_Enter(f, "hardware")
           = validate_playback_indepth_Enter(f, "software")
      /\ (future[f] = "running" /\ LastCall(f).status = "running") =>
           LET stage == LastCall(f).stage IN
             /\ stage # "duration" => AddsOnlyHwaccel(stage)
             /\ \A o \in Outcomes(f, stage) :
                  /\ validate_playback_AfterExit(f, "hardware", stage, o.rc, o.out, o.err)
                       = validate_playback_AfterExit(f, "software", stage, o.rc, o.out, o.err)
                  /\ validate_playback_indepth_AfterExit(f, "hardware", stage, o.rc, o.out, o.err)
                       = validate_playback_indepth_AfterExit(f, "software", stage, o.rc, o.out, o.err)

\* An in-depth hardware run in which the duration probe of a file is
\* running, so the step to the middle probe is among those compared.
C18_Witness ==
  /\ scanner = "video" /\ validation = "indepth" /\ decoder = "hardware"
  /\ max_workers < Cardinality(all_files)
  /\ \E f, g \in all_files :
       /\ future[f] = "running"
       /\ LastCall(f) = Call("duration", "running")
       /\ Returned(g) /\ Valid(ret[g]) /\ Len(calls[g]) = 4

\* C19: main moves to the next section only in a step in which every task
\* of the current section is done and collected, none is queued or running,
\* the section's count is stored and its report is produced, and after
\* which no task of the next section exists yet; at no time are more
\* validations running than max_workers.
C19_SectionsSequential ==
  [][ /\ section' # section =>
           /\ section' = section + 1
           /\ \A f \in all_files : future[f] = "done" /\ collected[f] = 1
           /\ total_corrupted'[section] = Len(corrupted_files)
           /\ corrupted_files # <<>> =>
                outputFile'.written /\ outputFile'.rows = corrupted_files
           /\ all_files' = {}
           /\ mainpc' = "submit"
      /\ Cardinality(Running') <= max_workers ]_vars

\* The second section is being validated with every worker busy, after a
\* first section that listed a file.
C19_Witness ==
  /\ section = 2
  /\ total_corrupted[1] > 0
  /\ max_workers = 2
  /\ Cardinality(Running) = 2

\* C20: whenever the CSV of the section has been written, its count has
\* been stored or main has returned, every submitted future is done with a
\* value and has been collected, and what was written and counted is the
\* whole list.
C20_FinalizedAfterAll ==
  (outputFile.written \/ mainpc = "returned" \/ total_corrupted[section] > 0) =>
    /\ \A f \in all_files :
         future[f] = "done" /\ ret[f] # Pending /\ collected[f] = 1
    /\ total_corrupted[section] = Len(corrupted_files)
    /\ outputFile.written => outputFile.rows = corrupted_files
    /\ outputFile.written <=> (scanner = "audio" \/ corrupted_files # <<>>)

\* A returned run of two files and two workers whose report is written
\* with one row while the other file is valid.
C20_Witness ==
  /\ mainpc = "returned"
  /\ outputFile.written
  /\ max_workers = 2
  /\ Cardinality(all_files) = 2
  /\ Len(outputFile.rows) = 1
  /\ total_corrupted[section] = 1

\* The tasks whose future, processes or return value a step changes.
Touched ==
  {f \in all_files \cap all_files' :
     <<future[f], calls[f], ret[f]>> # <<future'[f], calls'[f], ret'[f]>>}

\* C21: while a section's pool runs, a step of a worker changes the future,
\* the processes and the return value of one task and nothing else, so no
\* worker writes the list, the collection marks, the CSV, the counts or
\* another task's state; the list and the marks change only in a step of the
\* collection loop, which takes one done future that was not collected yet,
\* marks it once and appends at most its one row.
C21_WorkersShareNothing ==
  [][(mainpc \in {"collect", "interrupted", "raised"} /\ all_files' = all_files) =>
       /\ Cardinality(Touched) <= 1
       /\ Touched # {} =>
            UNCHANGED <<config, collected, corrupted_files, outputFile, mainpc>>
       /\ <<collected, corrupted_files>> # <<collected', corrupted_files'>> =>
            /\ Touched = {}
            /\ \E f \in all_files :
                 /\ future[f] = "done" /\ collected[f] = 0
                 /\ collected' = [collected EXCEPT ![f] = 1]
                 /\ \/ corrupted_files' = corrupted_files
                    \/ /\ Len(corrupted_files') = Len(corrupted_files) + 1
                       /\ SubSeq(corrupted_files', 1, Len(corrupted_files))
                            = corrupted_files
                       /\ corrupted_files'[Len(corrupted_files')][1] = path[f]]_vars

\* One task's outcome is in the list while another task, started by the
\* second worker, has a live process.
C21_Witness ==
  /\ max_workers = 2
  /\ \E f, g \in all_files :
       /\ f # g
       /\ collected[f] = 1
       /\ \E i \in DOMAIN corrupted_files : corrupted_files[i][1] = path[f]
       /\ future[g] = "running"
       /\ HasCall(g) /\ LastCall(g).status = "running"

\* Every entry below the roots of a list, directories included.
EntriesUnder(n, dirs) ==
  UNION {{Below(n, dirs[i])[k] : k \in DOMAIN Below(n, dirs[i])} :
           i \in {j \in DOMAIN dirs : IsDir(dirs[j])}}

\* The rule by suffix: the entry's lowercase suffix is in the scanner's
\* extension set and its name does not start with "._".
SuffixRule(e) ==
  /\ ~e.hidden
  /\ Lower(PurePathSuffix(e)) \in (IF scanner = "audio" THEN AUDIO_EXTENSIONS
                                   ELSE VIDEO_EXTENSIONS)

\* The files the section's candidates name.
CandidateIds == {path[f] : f \in all_files}

\* C22: once a section's roots are walked, every regular file below them
\* that passes the suffix rule is a candidate, and every candidate passes
\* the suffix rule, in the video scanners as in the audio scanner.
C22_SuffixRuleDecides ==
  mainpc \notin {"submit", "keyerror"} =>
    \E n \in 1..MaxFiles :
      /\ path = Discover(n, DIRECTORIES[section])
      /\ \A e \in EntriesUnder(n, DIRECTORIES[section]) :
           /\ (~e.isdir /\ SuffixRule(e)) => e.id \in CandidateIds
           /\ e.id \in CandidateIds => SuffixRule(e)

\* A root list without the roots that are not directories.
ExistingRoots(dirs) == SelectSeq(dirs, IsDir)

\* The section's candidates have just been submitted.
Submitted == mainpc = "collect" /\ \A f \in all_files : future[f] = "queued"

CheckNamed(reason) ==
  CASE reason = MsgExistence -> "existence"
    [] StageNamed(reason) # "none" -> StageNamed(reason)
    [] reason = "Metadata validation error: " \o MsgSpawn -> "metadata"
    [] reason \in {"Playback validation error: " \o MsgSpawn,
                   "Playback validation error: " \o MsgFloat,
                   "Playback process timed out, Please Check Manually",
                   "Playback error: Playback process timed out, Please Check Manually",
                   "Playback error: Error occurred: " \o MsgSpawn} -> "playback"
    [] OTHER -> "none"

\* C24: a returned validator result that signals Valid carries no reason,
\* and one that signals Corrupt, Timeout or Error carries a non-empty reason
\* that names the check that failed.
C24_ReasonNamesCheck ==
  \A f \in all_files :
    (Returned(f) /\ ~Raised(ret[f])) =>
      IF Valid(ret[f])
      THEN ret[f].reason = "None"
      ELSE /\ ret[f].reason \notin {"None", ""}
           /\ CheckNamed(ret[f].reason) # "none"

\* What each validator's result says about the file, read off its return
\* convention: validate_metadata/validate_playback/validate_playback_indepth
\* return (True, None) for a valid file, is_video_corrupted returns
\* (False, None), validate_audio_file returns None.
SignalsValid(r) ==
  CASE scanner = "video" -> r = Tuple("True", "None")
    [] scanner = "video_sw" -> r = Tuple("False", "None")
    [] OTHER -> r = PyNone

\* The rows of the section's list that name the file of a task.
RowsOf(f) == {i \in DOMAIN corrupted_files : corrupted_files[i][1] = path[f]}

\* C25: in all three scanners, when the pool run has returned a file has a
\* row in the section's list exactly when its validation did not return
\* Valid, the row carries the returned reason, and the count stored for the
\* summary is the length of the list.
C25_MembershipMatchesVerdict ==
  mainpc = "returned" =>
    /\ \A f \in all_files :
         /\ ret[f] # Pending
         /\ SignalsValid(ret[f]) <=> RowsOf(f) = {}
         /\ \A i \in RowsOf(f) : corrupted_files[i][2] = ret[f].reason
    /\ total_corrupted[section] = Len(corrupted_files)
    /\ Len(corrupted_files) = Cardinality({f \in all_files : ~SignalsValid(ret[f])})

\* A returned run over two files, one valid and one not, whose list has
\* the one row and whose count is one.
C25_Witness ==
  /\ mainpc = "returned"
  /\ \E f, g \in all_files :
       /\ SignalsValid(ret[f])
       /\ ~SignalsValid(ret[g])
       /\ corrupted_files = <<<<path[g], ret[g].reason>>>>
  /\ total_corrupted[section] = 1

\* C26: when the last section has returned, the rows of its output file are
\* exactly the rows this run listed for it, also when the file held rows of
\* an earlier run and this run listed none.
C26_FileReflectsThisRun ==
  mainpc = "returned" => outputFile.rows = corrupted_files

\* The processes of a task that have exited on their own.
Exited(c) == c.status \in {"exit0", "exit1"}

\* C27: a validation task has at most one live process at any time: every
\* process but the last one it spawned has exited, so only the last one can
\* be live; a running process belongs to a validator that is still running,
\* a killed one is the process of the stage that timed out, in a validator
\* that returned a timeout result, and when the validator has returned
\* anything but a timeout result every process it spawned has exited.
C27_OneLiveProcessPerTask ==
  \A f \in all_files :
    /\ \A i \in DOMAIN calls[f] : i < Len(calls[f]) => Exited(calls[f][i])
    /\ HasCall(f) =>
         CASE LastCall(f).status = "running" -> future[f] = "running"
           [] LastCall(f).status \in {"killed", "gone"} ->
                Returned(f) /\ IsTimeout(ret[f])
           [] OTHER -> Exited(LastCall(f))
    /\ (Returned(f) /\ ~IsTimeout(ret[f]) /\ HasCall(f)) => Exited(LastCall(f))

\* A multi-point validation whose start and duration probes exited and
\* whose middle probe was killed on its timeout, next to a validation that
\* returned after four exited probes.
C27_Witness ==
  \E f, g \in all_files :
    /\ Len(calls[f]) = 3
    /\ LastCall(f).stage = "middle" /\ LastCall(f).status = "killed"
    /\ Returned(f)
    /\ Len(calls[g]) = 4
    /\ Returned(g) /\ Exited(LastCall(g))

\* C28: in the audio scanner a playback probe is spawned for a file only
\* after the existence check passed and the metadata probe exited with 0,
\* and a file whose metadata probe failed has that one process only and is
\* returned with the metadata reason.
C28_MetadataBeforePlayback ==
  scanner = "audio" =>
    \A f \in all_files :
      /\ \A i \in DOMAIN calls[f] :
           calls[f][i].stage # "metadata" =>
             /\ i >= 2
             /\ fileKind[f] = "ok"
             /\ calls[f][1] = Call("metadata", "exit0")
      /\ \A i \in DOMAIN calls[f] : calls[f][i].stage = "metadata" => i = 1
      /\ (HasCall(f) /\ calls[f][1].status = "exit1") =>
           /\ Len(calls[f]) = 1
           /\ Returned(f)
           /\ ret[f] = Tuple("path", "Metadata validation failed: <stderr>")

\* An audio run in which one file failed its metadata probe and was
\* returned after that single process, and another passed it and has its
\* start probe running.
C28_Witness ==
  /\ scanner = "audio"
  /\ \E f, g \in all_files :
       /\ calls[f] = <<Call("metadata", "exit1")>> /\ Returned(f)
       /\ calls[g] = <<Call("metadata", "exit0"), Call("start", "running")>>

\* C29: no candidate is a directory, and no row of the report names one.
C29_CandidatesAreFiles ==
  /\ \A f \in all_files : fileKind[f] # "dir"
  /\ \A i \in DOMAIN outputFile.rows :
       \A f \in all_files : path[f] = outputFile.rows[i][1] => fileKind[f] # "dir"

\* C30: in a run whose configuration names a section without an entry in
\* OUTPUT_FILES, no section is ever scanned: main is at its start or has
\* failed there, no file was submitted, no count stored, no CSV written.
C30_ConfigCheckedFirst ==
  (\E s \in DOMAIN DIRECTORIES : s \notin DOMAIN OUTPUT_FILES) =>
    /\ mainpc \in {"submit", "keyerror"}
    /\ section = 1
    /\ all_files = {}
    /\ \A s \in DOMAIN total_corrupted : total_corrupted[s] = 0
    /\ ~outputFile.written

====
